---- MODULE Spec2Model ----
(***************************************************************************)
(* A model of laterpay.LaterPayClient (src/laterpay/__init__.py): the      *)
(* client's fields, its URL builders and its three API operations with the *)
(* token life cycle of _make_request.                                      *)
(*                                                                         *)
(* Python values: None is the string "None"; a str that is only carried    *)
(* around is a TLA+ string; a str whose length matters is a sequence of    *)
(* characters; a dict is a function on its set of keys (a key is present   *)
(* iff it is in the DOMAIN); a list or tuple is a sequence; a formatted    *)
(* URL is a record of its parts.                                           *)
(***************************************************************************)
EXTENDS Integers, Sequences, FiniteSets, TLC

VARIABLES
    cp_key,         \* self.cp_key
    shared_secret,  \* self.shared_secret
    api_root,       \* self.api_root
    web_root,       \* self.web_root
    lptoken,        \* self.lptoken
    call,           \* what the last finished call did (Spec)
    th,             \* the frames of the calls in flight (SpecConc)
    note            \* per caller: the token another call adopted meanwhile

vars == <<cp_key, shared_secret, api_root, web_root, lptoken, call, th, note>>

config == <<cp_key, shared_secret, api_root, web_root>>

None == "None"

\* ------------------------------------------------------------ bounds

MaxTrefLen == 7
MaxArticles == 1
NumTokens == 2

\* ------------------------------------------------------------ inputs

TokenNames == <<"t1", "t2", "t3">>

Tokens == {TokenNames[i] : i \in 1..NumTokens}

Threshold == 5

ProductKeys == {None, "p1"}

\* article_ids as the caller passes it: one id, or a list of ids.
ArticleInputs ==
    {[is_list |-> FALSE, val |-> "a1"]}
        \cup {[is_list |-> TRUE, val |-> [i \in 1..n |-> "a1"]] : n \in 1..MaxArticles}

Opt(k, S) == {<<>>} \cup {k :> v : v \in S}

\* The JSON objects the server may answer with: every field is optional.
Statuses == {"ok", "invalid_token", "connection_error", "teapot"}

Payloads ==
    {<<>>,
     "articles" :> ("a1" :> TRUE),
     ("articles" :> ("a1" :> FALSE)) @@ ("exceeded" :> TRUE) @@ ("subs" :> <<"sub1">>)}

Responses ==
    {s @@ t @@ p : s \in Opt("status", Statuses),
                   t \in Opt("new_token", Tokens \cup {None}),
                   p \in Payloads}

\* What compat.urlopen(req).read() followed by json.loads does: urlopen raises
\* URLError, or another exception; or the body read is no JSON (json.loads
\* raises ValueError), is JSON but no object (the array []), or is an object.
Outcomes ==
    {[kind |-> k, obj |-> <<>>] : k \in {"URLError", "Error", "BadJSON", "NonObject"}}
        \cup {[kind |-> "Object", obj |-> r] : r \in Responses}

\* ------------------------------------------------------------ signing

NoQuery == [kind |-> "none"]

\* signing.sign_and_encode: the encoded parameters with the digest of the
\* method, the URL and the parameters under the secret.
sign_and_encode(secret, params, url, method) ==
    [kind |-> "signed", params |-> params,
     hmac |-> [key |-> secret, method |-> method, url |-> url, params |-> params]]

\* One invocation of signing.sign_and_encode, as the call record keeps it.
Signing(secret, params, url, method) ==
    [secret |-> secret, params |-> params, url |-> url, method |-> method,
     out |-> sign_and_encode(secret, params, url, method)]

\* ------------------------------------------------------------ results

Return(v) == [kind |-> "return", exc |-> None, value |-> v]

Raise(e, arg) == [kind |-> "raise", exc |-> e, value |-> arg]

\* ------------------------------------------------------------ _make_request

Headers == [api_version |-> 2, user_agent |-> "LaterPay Client - Python - v0.2"]

\* compat.Request: POST carries the signed parameters as data, GET in the URL.
Request(url, signed, method) ==
        IF method = "POST"
        THEN [method |-> "POST", url |-> url, query |-> NoQuery,
              data |-> signed, headers |-> Headers]
        ELSE [method |-> "GET", url |-> url, query |-> signed,
              data |-> NoQuery, headers |-> Headers]

\* Variant: the URLError is not caught.
transport_propagates(outcome) ==
    CASE outcome.kind = "URLError" -> [raised |-> "URLError", resp |-> <<>>]
      [] outcome.kind = "Error" -> [raised |-> None, resp |-> ("status" :> "unexpected error")]
      [] outcome.kind = "BadJSON" -> [raised |-> "ValueError", resp |-> <<>>]
      [] OTHER -> [raised |-> None, resp |-> outcome.obj]

\* try / except URLError / except / else: the response dict, or the exception
\* that json.loads, in the else branch, lets through.
transport(outcome) ==
    CASE outcome.kind = "URLError" -> [raised |-> None, resp |-> ("status" :> "connection_error")]
      [] outcome.kind = "Error" -> [raised |-> None, resp |-> ("status" :> "unexpected error")]
      [] outcome.kind = "BadJSON" -> [raised |-> "ValueError", resp |-> <<>>]
      [] OTHER -> [raised |-> None, resp |-> outcome.obj]

\* Variant: new_token is adopted from a response with status ok only.
adopt_token_if_ok(tok, resp) ==
    IF "new_token" \in DOMAIN resp /\ "status" \in DOMAIN resp /\ resp["status"] = "ok"
    THEN resp["new_token"] ELSE tok

\* if 'new_token' in resp: self.lptoken = resp['new_token']
adopt_token(tok, resp) ==
    IF "new_token" \in DOMAIN resp THEN resp["new_token"] ELSE tok

\* Variant: a response that carries new_token does not clear.
clear_token_unless_new(tok, resp) ==
    IF "status" \in DOMAIN resp /\ resp["status"] = "invalid_token"
       /\ "new_token" \notin DOMAIN resp
    THEN None ELSE tok

\* Variant: a connection error clears too.
clear_token_on_error(tok, resp) ==
    IF "status" \in DOMAIN resp /\ resp["status"] \in {"invalid_token", "connection_error"}
    THEN None ELSE tok

\* if resp.get('status', None) == 'invalid_token': self.lptoken = None
clear_token(tok, resp) ==
    IF "status" \in DOMAIN resp /\ resp["status"] = "invalid_token" THEN None ELSE tok

\* The whole of _make_request: the signer's invocation, the one HTTP request,
\* the response (or the exception raised), and self.lptoken afterwards.
make_request(self, url, map, method, outcome) ==
    LET t == transport(outcome)
        answered == t.raised = None
        is_dict == outcome.kind # "NonObject"
    IN  [signed |-> <<Signing(self.shared_secret, map, url, method)>>,
         transport |-> outcome.kind,
         http |-> <<Request(url, sign_and_encode(self.shared_secret, map, url, method), method)>>,
         \* [].get raises AttributeError after 'new_token' in [] was False
         raised |-> IF answered /\ ~is_dict THEN "AttributeError" ELSE t.raised,
         has_resp |-> answered /\ is_dict,
         resp |-> IF answered /\ is_dict THEN t.resp ELSE <<>>,
         lptoken |-> IF answered /\ is_dict
                     THEN clear_token(adopt_token(self.lptoken, t.resp), t.resp)
                     ELSE self.lptoken]

has_token(self) == self.lptoken # None

\* ------------------------------------------------------------ API operations

access_url(self) == <<self.api_root, "/access">>

add_url(self) == <<self.api_root, "/add">>

WithProduct(map, product_key) ==
    IF product_key # None THEN ("product" :> product_key) @@ map ELSE map

\* if not isinstance(article_ids, (list, tuple)): article_ids = [article_ids]
AsList(article_ids) ==
    IF article_ids.is_list THEN article_ids.val ELSE <<article_ids.val>>

\* The status checks that follow the request, given the response dict.

\* Variant: any status but ok raises, as in get_metered_access.
add_metered_access_strict(data) ==
    IF "status" \notin DOMAIN data THEN Raise("KeyError", "status")
    ELSE IF data["status"] = "invalid_token" THEN Raise("InvalidTokenException", None)
    ELSE IF data["status"] # "ok" THEN Raise("Exception", None)
    ELSE Return(None)

add_metered_access_result(data) ==
    IF "status" \notin DOMAIN data THEN Raise("KeyError", "status")
    ELSE IF data["status"] = "invalid_token" THEN Raise("InvalidTokenException", None)
    ELSE Return(None)

\* Variant: the check for a status other than ok is missing.
get_metered_access_lenient(data) ==
    IF "status" \notin DOMAIN data THEN Raise("KeyError", "status")
    ELSE IF data["status"] = "invalid_token" THEN Raise("InvalidTokenException", None)
    ELSE IF "articles" \notin DOMAIN data THEN Raise("KeyError", "articles")
    ELSE Return(<<data["articles"],
                  IF "exceeded" \in DOMAIN data THEN data["exceeded"] ELSE FALSE,
                  IF "subs" \in DOMAIN data THEN data["subs"] ELSE <<>>>>)

get_metered_access_result(data) ==
    IF "status" \notin DOMAIN data THEN Raise("KeyError", "status")
    ELSE IF data["status"] = "invalid_token" THEN Raise("InvalidTokenException", None)
    ELSE IF data["status"] # "ok" THEN Raise("Exception", None)
    ELSE IF "articles" \notin DOMAIN data THEN Raise("KeyError", "articles")
    ELSE Return(<<data["articles"],
                  IF "exceeded" \in DOMAIN data THEN data["exceeded"] ELSE FALSE,
                  IF "subs" \in DOMAIN data THEN data["subs"] ELSE <<>>>>)

allowed_statuses == {"ok", "invalid_token", "connection_error"}

\* Variant: invalid_token raises, as in the other two operations.
get_access_strict(data) ==
    IF "status" \notin DOMAIN data THEN Raise("KeyError", "status")
    ELSE IF data["status"] = "invalid_token" THEN Raise("InvalidTokenException", None)
    ELSE IF data["status"] \notin allowed_statuses THEN Raise("Exception", data["status"])
    ELSE Return(data)

get_access_result(data) ==
    IF "status" \notin DOMAIN data THEN Raise("KeyError", "status")
    ELSE IF data["status"] \notin allowed_statuses THEN Raise("Exception", data["status"])
    ELSE Return(data)

\* A finished API call: what it was, what it sent, what came back, how it ended.
ApiCall(op, args, r, result) ==
    [op |-> op, api |-> TRUE, args |-> args, signed |-> r.signed, http |-> r.http,
     transport |-> r.transport, has_resp |-> r.has_resp, resp |-> r.resp,
     result |-> IF r.raised # None THEN Raise(r.raised, None) ELSE result]

add_metered_access(self, article_id, threshold, product_key, outcome) ==
    LET params == WithProduct(
            [lptoken |-> self.lptoken, cp |-> self.cp_key, threshold |-> threshold,
             feature |-> "metered", period |-> "monthly", article_id |-> article_id],
            product_key)
        r == make_request(self, add_url(self), params, "POST", outcome)
    IN  [lptoken |-> r.lptoken,
         call |-> ApiCall("add_metered_access",
                          [article_id |-> article_id, threshold |-> threshold,
                           product_key |-> product_key],
                          r, add_metered_access_result(r.resp))]

get_metered_access(self, article_ids, threshold, product_key, outcome) ==
    LET params == WithProduct(
            [lptoken |-> self.lptoken, cp |-> self.cp_key,
             article_id |-> AsList(article_ids), feature |-> "metered",
             threshold |-> threshold, period |-> "monthly"],
            product_key)
        r == make_request(self, access_url(self), params, "GET", outcome)
    IN  [lptoken |-> r.lptoken,
         call |-> ApiCall("get_metered_access",
                          [article_ids |-> article_ids, threshold |-> threshold,
                           product_key |-> product_key],
                          r, get_metered_access_result(r.resp))]

get_access(self, article_ids, product_key, outcome) ==
    LET params == WithProduct(
            [lptoken |-> self.lptoken, cp |-> self.cp_key,
             article_id |-> AsList(article_ids)],
            product_key)
        r == make_request(self, access_url(self), params, "GET", outcome)
    IN  [lptoken |-> r.lptoken,
         call |-> ApiCall("get_access",
                          [article_ids |-> article_ids, product_key |-> product_key],
                          r, get_access_result(r.resp))]

\* ------------------------------------------------------------ URL builders

\* compat.quote_plus: the percent-encoded form of a string or URL.
quote_plus(x) == [quoted |-> x]

Url(base, query) == [base |-> base, query |-> query]

UrlCall(op, args, signed, result) ==
    [op |-> op, api |-> FALSE, args |-> args, signed |-> signed, http |-> <<>>,
     transport |-> None, has_resp |-> FALSE, resp |-> <<>>, result |-> result]

\* A builder that signs `data` for `base` and returns base?params.
SignedUrl(self, op, args, data, base) ==
    LET s == Signing(self.shared_secret, data, base, "GET")
    IN  UrlCall(op, args, <<s>>, Return(Url(base, s.out)))

gettoken_url(self) == <<self.api_root, "/gettoken">>

identify_url(self) == <<self.api_root, "/identify">>

get_gettoken_redirect(self, return_to) ==
    SignedUrl(self, "get_gettoken_redirect", [return_to |-> return_to],
              [redir |-> return_to, cp |-> self.cp_key], gettoken_url(self))

get_identify_url(self, identify_callback) ==
    SignedUrl(self, "get_identify_url", [identify_callback |-> identify_callback],
              IF identify_callback # None
              THEN [cp |-> self.cp_key, callback_url |-> identify_callback]
              ELSE [cp |-> self.cp_key],
              identify_url(self))

\* The value of data['show'] as the pieces appended to it, in order.
Show(f) ==
    (IF f.show_long_greeting THEN <<"gg">> ELSE IF f.show_greeting THEN <<"g">> ELSE <<>>)
        \o (IF f.show_login THEN <<"l">> ELSE <<>>)
        \o (IF f.show_long_signup THEN <<"ss">> ELSE IF f.show_signup THEN <<"s">> ELSE <<>>)

\* "".join(random.choice(string.ascii_letters) for x in xrange(10)): some ten
\* letters (xrange is the builtin of Python 2, which the module is written for).
Prefixes == {"xdmPrefixA", "xdmPrefixB"}

get_controls_links_url(self, op, f, xdmprefix) ==
    LET d0 == [next |-> f.next_url, cp |-> self.cp_key]
        d1 == IF f.forcelang # None THEN ("forcelang" :> f.forcelang) @@ d0 ELSE d0
        d2 == IF f.css_url # None THEN ("css" :> f.css_url) @@ d1 ELSE d1
        d3 == IF f.use_jsevents THEN ("jsevents" :> "1") @@ d2 ELSE d2
        d4 == IF Show(f) # <<>> THEN ("show" :> Show(f)) @@ d3 ELSE d3
        data == ("xdmprefix" :> xdmprefix) @@ d4
    IN  SignedUrl(self, op, f, data, <<self.web_root, "/controls/links">>)

get_controls_balance_url(self, op, forcelang, xdmprefix) ==
    LET d0 == [cp |-> self.cp_key]
        d1 == IF forcelang # None THEN ("forcelang" :> forcelang) @@ d0 ELSE d0
        data == ("xdmprefix" :> xdmprefix) @@ d1
    IN  SignedUrl(self, op, [forcelang |-> forcelang], data,
                  <<self.web_root, "/controls/balance">>)

\* Variant: the inner URL is wrapped without its query string.
get_dialog_api_url_drops(self, url) ==
    Url(<<self.web_root, "/dialog-api">>,
        [kind |-> "dialog", url |-> quote_plus(Url(url.base, NoQuery))])

get_dialog_api_url(self, url) ==
    Url(<<self.web_root, "/dialog-api">>, [kind |-> "dialog", url |-> quote_plus(url)])

\* get_login_dialog_url, get_signup_dialog_url, get_logout_dialog_url: the inner
\* URL is formatted from next_url, jsevents and cp, and wrapped.
account_dialog_url(self, op, page, next_url, use_jsevents) ==
    LET inner == Url(<<self.web_root, "/account/dialog/", page>>,
                     [kind |-> "plain", next |-> quote_plus(next_url),
                      jsevents |-> IF use_jsevents THEN "1" ELSE None,
                      cp |-> self.cp_key])
    IN  UrlCall(op, [next_url |-> next_url, use_jsevents |-> use_jsevents], <<>>,
                Return(get_dialog_api_url(self, inner)))

\* ItemDefinition(...).data of a valid item.
ItemDefinition(cp) ==
    [article_id |-> "a1", purchasedatetime |-> 1414141414, pricing |-> "EUR20",
     vat |-> "DE19", url |-> "http://example.com/a1", title |-> "title", cp |-> cp]

\* if transaction_reference:
Truthy(tref) == ~tref.is_none /\ Len(tref.str) > 0

MinTrefLen == 6

\* Variant: the comparison is <= instead of <.
tref_rejected_le(tref) == Truthy(tref) /\ Len(tref.str) <= MinTrefLen

\* if transaction_reference: if len(transaction_reference) < 6: raise
tref_rejected(tref) == Truthy(tref) /\ Len(tref.str) < MinTrefLen

get_web_url(self, op, item_definition, page_type, o, transaction_reference) ==
    LET d0 == item_definition
        d1 == IF o.use_jsevents THEN ("jsevents" :> 1) @@ d0 ELSE d0
        d2 == IF o.consumable THEN ("consumable" :> 1) @@ d1 ELSE d1
        d3 == IF o.expires_at # None THEN ("expires_at" :> o.expires_at) @@ d2 ELSE d2
        d4 == IF Truthy(transaction_reference)
              THEN ("tref" :> transaction_reference.str) @@ d3 ELSE d3
        data == IF o.skip_add_to_invoice THEN ("skip_add_to_invoice" :> 1) @@ d4 ELSE d4
        prefix == IF o.dialog THEN <<self.web_root, "/dialog">> ELSE <<self.web_root>>
        base_url == IF o.product_key # None
                    THEN prefix \o <<"/", o.product_key, "/", page_type>>
                    ELSE prefix \o <<"/", page_type>>
        s == Signing(self.shared_secret, data, base_url, "GET")
        args == [item_definition |-> item_definition, options |-> o,
                 transaction_reference |-> transaction_reference]
    IN  IF tref_rejected(transaction_reference)
        THEN UrlCall(op, args, <<>>,
                     Raise("APIException", "Transaction reference is not unique enough"))
        ELSE UrlCall(op, args, <<s>>,
                     Return(get_dialog_api_url(self, Url(base_url, s.out))))

get_buy_url(self, item_definition, o, transaction_reference) ==
    get_web_url(self, "get_buy_url", item_definition, "buy", o, transaction_reference)

get_add_url(self, item_definition, o, transaction_reference) ==
    get_web_url(self, "get_add_url", item_definition, "add", o, transaction_reference)

\* ------------------------------------------------------------ builder inputs

LinksDefaults ==
    [next_url |-> "http://example.com/next", css_url |-> None, forcelang |-> None,
     show_greeting |-> FALSE, show_long_greeting |-> FALSE, show_login |-> FALSE,
     show_signup |-> FALSE, show_long_signup |-> FALSE, use_jsevents |-> FALSE]

LinksInputs ==
    {[LinksDefaults EXCEPT !.show_greeting = g, !.show_long_greeting = gg,
                           !.show_login = l, !.show_signup = sg,
                           !.show_long_signup = ss] :
        g \in BOOLEAN, gg \in BOOLEAN, l \in BOOLEAN, sg \in BOOLEAN, ss \in BOOLEAN}
        \cup {[LinksDefaults EXCEPT !.css_url = "http://example.com/css",
                                    !.forcelang = "de", !.use_jsevents = TRUE]}

BuyDefaults ==
    [product_key |-> None, dialog |-> TRUE, use_jsevents |-> FALSE,
     skip_add_to_invoice |-> FALSE, consumable |-> FALSE, expires_at |-> None]

BuyOptions ==
    {BuyDefaults,
     [product_key |-> "p1", dialog |-> FALSE, use_jsevents |-> TRUE,
      skip_add_to_invoice |-> TRUE, consumable |-> TRUE, expires_at |-> "1500000000"]}

NoTref == [is_none |-> TRUE, str |-> <<>>]

TrefInputs ==
    {NoTref} \cup {[is_none |-> FALSE, str |-> [i \in 1..n |-> "x"]] : n \in 0..MaxTrefLen}

Items == {ItemDefinition(cp) : cp \in {None, "cp9"}}

\* ------------------------------------------------------------ the client

Self ==
    [cp_key |-> cp_key, shared_secret |-> shared_secret, api_root |-> api_root,
     web_root |-> web_root, lptoken |-> lptoken]

NoCall ==
    [op |-> "__init__", api |-> FALSE, args |-> <<>>, signed |-> <<>>, http |-> <<>>,
     transport |-> None, has_resp |-> FALSE, resp |-> <<>>, result |-> Return(None)]

Callers == {1, 2}

Idle == [pc |-> "idle", op |-> None, sent |-> None, resp |-> <<>>, result |-> Return(None)]

\* LaterPayClient(cp_key, shared_secret, api_root, web_root, lptoken)
Init ==
    /\ cp_key \in {"cp1"}
    /\ shared_secret \in {"secret1"}
    /\ api_root \in {"https://api.laterpay.net"}
    /\ web_root \in {"https://web.laterpay.net"}
    /\ lptoken \in Tokens \cup {None}
    /\ call = NoCall
    /\ th = [t \in Callers |-> Idle]
    /\ note = [t \in Callers |-> None]

AddMeteredAccess ==
    \E product_key \in ProductKeys, outcome \in Outcomes :
        LET r == add_metered_access(Self, "a1", Threshold, product_key, outcome)
        IN  /\ lptoken' = r.lptoken
            /\ call' = r.call
            /\ UNCHANGED <<config, th, note>>

GetMeteredAccess ==
    \E article_ids \in ArticleInputs, outcome \in Outcomes :
        LET r == get_metered_access(Self, article_ids, Threshold, None, outcome)
        IN  /\ lptoken' = r.lptoken
            /\ call' = r.call
            /\ UNCHANGED <<config, th, note>>

GetAccess ==
    \E article_ids \in ArticleInputs, outcome \in Outcomes :
        LET r == get_access(Self, article_ids, "p1", outcome)
        IN  /\ lptoken' = r.lptoken
            /\ call' = r.call
            /\ UNCHANGED <<config, th, note>>

HasToken ==
    /\ call' = [NoCall EXCEPT !.op = "has_token", !.result = Return(has_token(Self))]
    /\ UNCHANGED <<config, lptoken, th, note>>

GetGettokenRedirect ==
    /\ call' = get_gettoken_redirect(Self, "http://example.com/back")
    /\ UNCHANGED <<config, lptoken, th, note>>

GetIdentifyUrl ==
    \E identify_callback \in {None, "http://example.com/cb"} :
        /\ call' = get_identify_url(Self, identify_callback)
        /\ UNCHANGED <<config, lptoken, th, note>>

GetControlsLinksUrl ==
    \E f \in LinksInputs, xdmprefix \in Prefixes :
        /\ call' = get_controls_links_url(Self, "get_controls_links_url", f, xdmprefix)
        /\ UNCHANGED <<config, lptoken, th, note>>

\* The deprecated alias: warns, and delegates.
GetIframeapiLinksUrl ==
    \E xdmprefix \in Prefixes :
        /\ call' = get_controls_links_url(Self, "get_iframeapi_links_url",
                                          LinksDefaults, xdmprefix)
        /\ UNCHANGED <<config, lptoken, th, note>>

GetControlsBalanceUrl ==
    \E forcelang \in {None, "de"}, xdmprefix \in Prefixes :
        /\ call' = get_controls_balance_url(Self, "get_controls_balance_url",
                                            forcelang, xdmprefix)
        /\ UNCHANGED <<config, lptoken, th, note>>

\* The deprecated alias: warns, and delegates.
GetIframeapiBalanceUrl ==
    \E xdmprefix \in Prefixes :
        /\ call' = get_controls_balance_url(Self, "get_iframeapi_balance_url",
                                            None, xdmprefix)
        /\ UNCHANGED <<config, lptoken, th, note>>

GetLoginDialogUrl ==
    \E use_jsevents \in BOOLEAN :
        /\ call' = account_dialog_url(Self, "get_login_dialog_url", "login",
                                      "http://example.com/next", use_jsevents)
        /\ UNCHANGED <<config, lptoken, th, note>>

GetSignupDialogUrl ==
    \E use_jsevents \in BOOLEAN :
        /\ call' = account_dialog_url(Self, "get_signup_dialog_url", "signup",
                                      "http://example.com/next", use_jsevents)
        /\ UNCHANGED <<config, lptoken, th, note>>

GetLogoutDialogUrl ==
    \E use_jsevents \in BOOLEAN :
        /\ call' = account_dialog_url(Self, "get_logout_dialog_url", "logout",
                                      "http://example.com/next", use_jsevents)
        /\ UNCHANGED <<config, lptoken, th, note>>

GetBuyUrl ==
    \E item \in Items, o \in BuyOptions, tref \in TrefInputs :
        /\ call' = get_buy_url(Self, item, o, tref)
        /\ UNCHANGED <<config, lptoken, th, note>>

GetAddUrl ==
    \E item \in Items, o \in BuyOptions, tref \in TrefInputs :
        /\ call' = get_add_url(Self, item, o, tref)
        /\ UNCHANGED <<config, lptoken, th, note>>

Next ==
    \/ AddMeteredAccess
    \/ GetMeteredAccess
    \/ GetAccess
    \/ HasToken
    \/ GetGettokenRedirect
    \/ GetIdentifyUrl
    \/ GetControlsLinksUrl
    \/ GetIframeapiLinksUrl
    \/ GetControlsBalanceUrl
    \/ GetIframeapiBalanceUrl
    \/ GetLoginDialogUrl
    \/ GetSignupDialogUrl
    \/ GetLogoutDialogUrl
    \/ GetBuyUrl
    \/ GetAddUrl

Spec == Init /\ [][Next]_vars

\* ------------------------------------------------------------ two callers

\* One client shared by two callers. A caller's API call is its steps on
\* self.lptoken: the read that fills params, the request, the write of
\* new_token, the write of None; nothing in the client orders the steps of one
\* caller against those of the other.
ApiOps == {"add_metered_access", "get_metered_access", "get_access"}

ConcOutcomes ==
    {[kind |-> k, obj |-> <<>>] : k \in {"URLError", "BadJSON"}}
        \cup {[kind |-> "Object", obj |-> s @@ t] :
                s \in {"status" :> x : x \in {"ok", "invalid_token"}},
                t \in Opt("new_token", Tokens)}

OpResult(op, data) ==
    CASE op = "add_metered_access" -> add_metered_access_result(data)
      [] op = "get_metered_access" -> get_metered_access_result(data)
      [] OTHER -> get_access_result(data)

InFlight(t) == th[t].pc \in {"sent", "adopt", "clear"}

\* params = {'lptoken': self.lptoken, ...}; the request is signed and sent.
Send(t) ==
    /\ th[t].pc = "idle"
    /\ \E op \in ApiOps :
        th' = [th EXCEPT ![t] = [Idle EXCEPT !.pc = "sent", !.op = op, !.sent = lptoken]]
    /\ note' = [note EXCEPT ![t] = None]
    /\ UNCHANGED <<config, lptoken, call>>

\* compat.urlopen(req).read() returns or raises; resp is set.
Receive(t) ==
    /\ th[t].pc = "sent"
    /\ \E outcome \in ConcOutcomes :
        LET tr == transport(outcome)
        IN  th' = [th EXCEPT ![t] =
                     IF tr.raised # None
                     THEN [@ EXCEPT !.pc = "done", !.result = Raise(tr.raised, None)]
                     ELSE [@ EXCEPT !.pc = "adopt", !.resp = tr.resp]]
    /\ UNCHANGED <<config, lptoken, call, note>>

\* if 'new_token' in resp: self.lptoken = resp['new_token']
Adopt(t) ==
    /\ th[t].pc = "adopt"
    /\ lptoken' = adopt_token(lptoken, th[t].resp)
    /\ th' = [th EXCEPT ![t].pc = "clear"]
    /\ note' = IF "new_token" \in DOMAIN th[t].resp
               THEN [u \in Callers |->
                        IF u # t /\ InFlight(u) THEN th[t].resp["new_token"] ELSE None]
               ELSE note
    /\ UNCHANGED <<config, call>>

\* if resp.get('status', None) == 'invalid_token': self.lptoken = None; the
\* operation's own status checks follow.
Clear(t) ==
    /\ th[t].pc = "clear"
    /\ lptoken' = clear_token(lptoken, th[t].resp)
    /\ th' = [th EXCEPT ![t].pc = "done", ![t].result = OpResult(th[t].op, th[t].resp)]
    /\ note' = IF clear_token(lptoken, th[t].resp) # lptoken
               THEN [u \in Callers |-> None] ELSE note
    /\ UNCHANGED <<config, call>>

\* The call returns or raises to its caller.
Done(t) ==
    /\ th[t].pc = "done"
    /\ th' = [th EXCEPT ![t] = Idle]
    /\ note' = [note EXCEPT ![t] = None]
    /\ UNCHANGED <<config, lptoken, call>>

NextConc ==
    \E t \in Callers :
        \/ Send(t)
        \/ Receive(t)
        \/ Adopt(t)
        \/ Clear(t)
        \/ Done(t)

SpecConc == Init /\ [][NextConc]_vars

\* ------------------------------------------------------------ claims

HasStatus(c) == c.has_resp /\ "status" \in DOMAIN c.resp

StatusIs(c, S) == HasStatus(c) /\ c.resp["status"] \in S

HasNewToken(c) == c.has_resp /\ "new_token" \in DOMAIN c.resp

\* The lptoken the call put into the parameters it signed and sent.
SentToken(c) == c.signed[1].params["lptoken"]

T1 == TokenNames[1]

T2 == TokenNames[2]

\* C1, as claimed: after an API call whose response contains new_token, the
\* stored token equals that value and (the value being a token) the client has
\* a token, whatever the response's status.
C1_AsClaimed ==
    (call.api /\ HasNewToken(call))
        => /\ lptoken = call.resp["new_token"]
           /\ call.resp["new_token"] # None => has_token(Self)

\* C1, amended: after an API call whose response contains new_token and whose
\* status is not invalid_token, the stored token equals that value, and the
\* client has a token exactly when that value is not null.
C1_NewTokenAdopted ==
    (call.api /\ HasNewToken(call) /\ ~StatusIs(call, {"invalid_token"}))
        => /\ lptoken = call.resp["new_token"]
           /\ has_token(Self) <=> call.resp["new_token"] # None

C1_Witness ==
    /\ call.api /\ HasNewToken(call) /\ StatusIs(call, {"teapot"})
    /\ call.resp["new_token"] = T1
    /\ SentToken(call) = T2
    /\ lptoken = T1

\* C2: a step that is an API call answered with status invalid_token ends with
\* the stored token absent, however the operation ends; an API call sends the
\* token stored when it starts, so the call after an invalid_token one sends an
\* absent lptoken.
C2_InvalidTokenClears ==
    [][/\ (call'.api /\ StatusIs(call', {"invalid_token"})) => lptoken' = None
       /\ call'.api => SentToken(call') = lptoken
       /\ (call.api /\ StatusIs(call, {"invalid_token"}) /\ call'.api)
            => SentToken(call') = None]_vars

C2_Witness ==
    /\ call.op = "add_metered_access" /\ StatusIs(call, {"invalid_token"})
    /\ HasNewToken(call) /\ call.resp["new_token"] = T2
    /\ SentToken(call) = T1
    /\ call.result = Raise("InvalidTokenException", None)
    /\ lptoken = None /\ ~has_token(Self)

\* C3: get_access returns the response unchanged exactly when its status is
\* ok, invalid_token or connection_error, raises Exception(status) for every
\* other status, never raises InvalidTokenException, and returns
\* {'status': 'connection_error'} when the transport raised URLError.
C3_GetAccess ==
    call.op = "get_access"
        => /\ call.result.kind = "return"
                <=> StatusIs(call, {"ok", "invalid_token", "connection_error"})
           /\ call.result.kind = "return" => call.result.value = call.resp
           /\ (HasStatus(call) /\ call.result.kind = "raise")
                => call.result = Raise("Exception", call.resp["status"])
           /\ call.result.exc # "InvalidTokenException"
           /\ call.transport = "URLError"
                => call.result = Return("status" :> "connection_error")

C3_Witness ==
    /\ call.op = "get_access" /\ call.transport = "URLError"
    /\ call.result = Return("status" :> "connection_error")
    /\ lptoken = T1 /\ SentToken(call) = T1

\* get_metered_access on a status other than ok, and the article ids it sends.
MeteredFailures ==
    /\ StatusIs(call, {"invalid_token"})
            => call.result = Raise("InvalidTokenException", None)
    /\ (HasStatus(call) /\ ~StatusIs(call, {"ok", "invalid_token"}))
            => call.result = Raise("Exception", None)
    /\ call.transport \in {"URLError", "Error"} => call.result = Raise("Exception", None)
    /\ ~call.args.article_ids.is_list
            => call.signed[1].params["article_id"] = <<call.args.article_ids.val>>
    /\ call.args.article_ids.is_list
            => call.signed[1].params["article_id"] = call.args.article_ids.val

MeteredTriple ==
    <<call.resp["articles"],
      IF "exceeded" \in DOMAIN call.resp THEN call.resp["exceeded"] ELSE FALSE,
      IF "subs" \in DOMAIN call.resp THEN call.resp["subs"] ELSE <<>>>>

\* C4, as claimed: for every response with status ok get_metered_access returns
\* (articles, exceeded or False, subs or []); invalid_token raises
\* InvalidTokenException; every other status raises Exception; one id is sent
\* as a one-element list.
C4_AsClaimed ==
    call.op = "get_metered_access"
        => /\ MeteredFailures
           /\ StatusIs(call, {"ok"})
                => /\ call.result.kind = "return"
                   /\ "articles" \in DOMAIN call.resp
                   /\ call.result.value = MeteredTriple

\* C4, amended: the triple is returned for a response with status ok that
\* carries articles; with status ok and no articles the call raises KeyError.
C4_GetMeteredAccess ==
    call.op = "get_metered_access"
        => /\ MeteredFailures
           /\ (StatusIs(call, {"ok"}) /\ "articles" \in DOMAIN call.resp)
                => /\ call.result.kind = "return"
                   /\ call.result.value = MeteredTriple
           /\ (StatusIs(call, {"ok"}) /\ "articles" \notin DOMAIN call.resp)
                => call.result = Raise("KeyError", "articles")

C4_Witness ==
    /\ call.op = "get_metered_access" /\ StatusIs(call, {"ok"})
    /\ ~call.args.article_ids.is_list
    /\ call.result.kind = "return"
    /\ call.result.value = <<"a1" :> FALSE, TRUE, <<"sub1">>>>

\* C5: add_metered_access raises InvalidTokenException exactly when the
\* response status is invalid_token and returns normally for every other
\* status, the synthetic ones of a failed transport included, after one signed
\* POST with feature=metered and period=monthly.
C5_AddMeteredAccess ==
    call.op = "add_metered_access"
        => /\ call.result.exc = "InvalidTokenException"
                <=> StatusIs(call, {"invalid_token"})
           /\ (HasStatus(call) /\ ~StatusIs(call, {"invalid_token"}))
                => call.result = Return(None)
           /\ call.transport \in {"URLError", "Error"} => call.result = Return(None)
           /\ Len(call.http) = 1 /\ Len(call.signed) = 1
           /\ call.http[1].method = "POST"
           /\ call.http[1].data = call.signed[1].out
           /\ call.signed[1].method = "POST"
           /\ call.signed[1].params["feature"] = "metered"
           /\ call.signed[1].params["period"] = "monthly"

C5_Witness ==
    /\ call.op = "add_metered_access"
    /\ StatusIs(call, {"teapot"})
    /\ call.result = Return(None)

\* What each operation makes of a synthetic response.
HandledAs(c, status) ==
    CASE c.op = "add_metered_access" -> c.result = Return(None)
      [] c.op = "get_metered_access" -> c.result = Raise("Exception", None)
      [] OTHER -> c.result = IF status = "connection_error"
                             THEN Return("status" :> status)
                             ELSE Raise("Exception", status)

TransportStep(c, unexpected) ==
    /\ Len(c.http) = 1
    /\ c.transport = "URLError"
        => /\ c.has_resp /\ c.resp = ("status" :> "connection_error")
           /\ HandledAs(c, "connection_error")
    /\ c.transport = "Error"
        => /\ c.has_resp /\ c.resp = ("status" :> unexpected)
           /\ HandledAs(c, unexpected)

\* C6, as claimed: one HTTP dispatch per API call; URLError becomes the
\* response {'status': 'connection_error'}, any other exception of the HTTP
\* call becomes {'status': 'unexpected_error'}, and the operation handles that
\* response by its status.
C6_AsClaimed == call.api => TransportStep(call, "unexpected_error")

\* C6, amended: the same, with the second synthetic status spelled
\* 'unexpected error'.
C6_TransportFailures == call.api => TransportStep(call, "unexpected error")

C6_Witness ==
    /\ call.op = "get_access" /\ call.transport = "Error"
    /\ call.result = Raise("Exception", "unexpected error")
    /\ lptoken = SentToken(call)

IsWebUrl(c) == c.op \in {"get_buy_url", "get_add_url"}

Supplied(c) == ~c.args.transaction_reference.is_none

TrefLen(c) == Len(c.args.transaction_reference.str)

Rejected(c) ==
    /\ c.result = Raise("APIException", "Transaction reference is not unique enough")
    /\ c.signed = <<>>

SignedWithTref(c) ==
    /\ Len(c.signed) = 1
    /\ "tref" \in DOMAIN c.signed[1].params
    /\ c.signed[1].params["tref"] = c.args.transaction_reference.str
    /\ c.result.kind = "return"

\* C7, as claimed: get_buy_url and get_add_url reject a supplied
\* transaction_reference of length 0 to 5 with APIException without invoking
\* the signer, and sign a map carrying tref for length 6 or more.
C7_AsClaimed ==
    (IsWebUrl(call) /\ Supplied(call))
        => IF TrefLen(call) < MinTrefLen THEN Rejected(call) ELSE SignedWithTref(call)

\* C7, amended: lengths 1 to 5 are rejected; the empty string is treated as no
\* reference: the call signs a map without tref and returns.
C7_TransactionReference ==
    (IsWebUrl(call) /\ Supplied(call))
        => CASE TrefLen(call) = 0 ->
                    /\ Len(call.signed) = 1
                    /\ "tref" \notin DOMAIN call.signed[1].params
                    /\ call.result.kind = "return"
             [] TrefLen(call) \in 1..(MinTrefLen - 1) -> Rejected(call)
             [] OTHER -> SignedWithTref(call)

C7_Witness ==
    /\ call.op = "get_add_url" /\ Supplied(call)
    /\ TrefLen(call) = MinTrefLen - 1
    /\ Rejected(call)

ClientSigned ==
    {"get_gettoken_redirect", "get_identify_url", "get_controls_links_url",
     "get_iframeapi_links_url", "get_controls_balance_url", "get_iframeapi_balance_url"}

DialogBuilders == {"get_login_dialog_url", "get_signup_dialog_url", "get_logout_dialog_url"}

Builders == ClientSigned \cup DialogBuilders \cup {"get_buy_url", "get_add_url"}

\* The URL's query string is s, directly or inside the dialog-api wrapper.
Carries(url, s) ==
    \/ url.query = s
    \/ url.query.kind = "dialog" /\ url.query.url.quoted.query = s

SignedOnce(c) ==
    /\ Len(c.signed) = 1
    /\ "cp" \in DOMAIN c.signed[1].params
    /\ Carries(c.result.value, c.signed[1].out)

\* C8, as claimed: every URL builder that returns a URL invoked the signer
\* exactly once on a map with cp, and the URL carries the signer's output.
C8_AsClaimed ==
    (call.op \in Builders /\ call.result.kind = "return") => SignedOnce(call)

\* C8, amended: that holds of token bootstrap, identify, controls-links,
\* controls-balance (cp being the client's cp_key), buy and add (cp being the
\* item definition's); the login, signup and logout dialog builders never
\* invoke the signer and return an unsigned URL whose query has cp=cp_key.
C8_BuildersSign ==
    /\ (call.op \in Builders \ DialogBuilders /\ call.result.kind = "return")
            => SignedOnce(call)
    /\ (call.op \in ClientSigned /\ call.result.kind = "return")
            => call.signed[1].params["cp"] = cp_key
    /\ IsWebUrl(call) /\ call.result.kind = "return"
            => call.signed[1].params["cp"] = call.args.item_definition.cp
    /\ call.op \in DialogBuilders
            => /\ call.signed = <<>>
               /\ call.result.kind = "return"
               /\ call.result.value.query.kind = "dialog"
               /\ call.result.value.query.url.quoted.query.kind = "plain"
               /\ call.result.value.query.url.quoted.query.cp = cp_key

C8_Witness ==
    /\ call.op = "get_buy_url" /\ call.result.kind = "return"
    /\ SignedOnce(call)
    /\ call.signed[1].params["cp"] = None

\* C10: no step changes cp_key, shared_secret, api_root or web_root, and a step
\* that changes the stored token is an API call whose response contains
\* new_token or has status invalid_token.
C10_Frame ==
    [][/\ <<cp_key, shared_secret, api_root, web_root>>'
            = <<cp_key, shared_secret, api_root, web_root>>
       /\ lptoken' # lptoken
            => /\ call'.api
               /\ HasNewToken(call') \/ StatusIs(call', {"invalid_token"})]_vars

C10_Witness ==
    /\ call.api /\ call.transport = "URLError"
    /\ lptoken = T1 /\ SentToken(call) = T1

\* C9: a caller's write of None for an invalid_token response never replaces a
\* token that the other caller's call adopted after this caller's request was
\* sent with a different token.
C9_NoLostUpdate ==
    [][\A t \in Callers :
          (th[t].pc = "clear" /\ th'[t].pc = "done"
              /\ note[t] # None /\ th[t].sent # note[t])
            => lptoken' = note[t]]_vars

====
